---- MODULE Spec2Model ----
(***************************************************************************)
(* Revision-tracked hierarchical document store of django-wiki:            *)
(* wiki/models/article.py (Article, ArticleForObject, ArticleRevision),    *)
(* wiki/models/urlpath.py (URLPath) and django_notify/models.py            *)
(* (Notification.create_notifications).                                    *)
(*                                                                         *)
(* The store is the relational database under Django's default autocommit: *)
(* every statement is committed on its own unless the code opens           *)
(* transaction.atomic().  Python objects held by a caller (an Article      *)
(* instance, an ArticleRevision instance) are in-memory copies that may    *)
(* be stale with respect to the store.                                     *)
(***************************************************************************)
EXTENDS Integers, FiniteSets, Sequences, TLC

\* ---------------------------------------------------------------- bounds
MaxArticles == 3
MaxRevisions == 4
MaxNodes == 3

\* Two callers, each holding its own Article instance.
Writers == {1, 2}
Sites == {1, 2}
Slugs == {"a", "b"}

\* Python None / SQL NULL for ids (primary keys start at 1).
None == 0
\* An IntegerField that was never assigned (revision_number is None).
Unset == 0 - 1
\* slug = None
NoSlug == ""

VARIABLES
    articles,        \* Article table: id -> [current_revision, access]
    revisions,       \* ArticleRevision table: set of rows
    nodes,           \* URLPath table: id -> [parent, slug, site, article]
    bindings,        \* ArticleForObject table: set of [article, object_id]
    nextArticleId,   \* AutoField sequences
    nextRevisionId,
    nextNodeId,
    local,           \* local[w]: the Article instance held by caller w
    pc,              \* pc[w]: position of caller w inside add_revision
    inflight,        \* inflight[w]: the ArticleRevision instance being added
    outcome          \* what the last operation did / raised

vars == <<articles, revisions, nodes, bindings, nextArticleId, nextRevisionId,
          nextNodeId, local, pc, inflight, outcome>>

\* ------------------------------------------------------------ the store
DB ==
    [articles |-> articles, revisions |-> revisions, nodes |-> nodes,
     bindings |-> bindings, nextArticleId |-> nextArticleId,
     nextRevisionId |-> nextRevisionId, nextNodeId |-> nextNodeId]

Commit(d) ==
    /\ articles' = d.articles
    /\ revisions' = d.revisions
    /\ nodes' = d.nodes
    /\ bindings' = d.bindings
    /\ nextArticleId' = d.nextArticleId
    /\ nextRevisionId' = d.nextRevisionId
    /\ nextNodeId' = d.nextNodeId

EmptyDB ==
    [articles |-> <<>>, revisions |-> {}, nodes |-> <<>>, bindings |-> {},
     nextArticleId |-> 1, nextRevisionId |-> 1, nextNodeId |-> 1]

\* The permission columns of an Article with their defaults (article.py
\* l.34-45): no owner, no group, every flag set.
DefaultAccess ==
    [owner |-> None, group |-> None, group_read |-> TRUE, group_write |-> TRUE,
     other_read |-> TRUE, other_write |-> TRUE]

\* Article(): an unsaved instance, no primary key, current_revision null.
NewArticleObject == [id |-> None, current_revision |-> None, access |-> DefaultAccess]

\* The columns Model.save() writes for the instance art.
ArticleRow(art) == [current_revision |-> art.current_revision, access |-> art.access]

\* Article.objects.get(id=a) on the table as.
ArticleGet(as, a) ==
    [id |-> a, current_revision |-> as[a].current_revision, access |-> as[a].access]

\* ArticleRevision(title=...): unsaved, nothing assigned yet.
NewRevisionObject ==
    [id |-> None, article |-> None, revision_number |-> Unset,
     previous_revision |-> None, deleted |-> FALSE]

Max(S) == CHOOSE x \in S : \A y \in S : y <= x

\* article.articlerevision_set.all()
RevisionsOf(rs, a) == {r \in rs : r.article = a}

RevisionIds(rs) == {r.id : r \in rs}

RevisionById(rs, i) == CHOOSE r \in rs : r.id = i

\* revisions.latest().revision_number, get_latest_by = 'revision_number'
LatestNumber(rs, a) == Max({r.revision_number : r \in RevisionsOf(rs, a)})

\* Model.save() of an Article: INSERT when it has no primary key, otherwise
\* UPDATE of every field (INSERT with that key when the row is gone).
ArticleSave(art, d) ==
    IF art.id = None
    THEN [art |-> [art EXCEPT !.id = d.nextArticleId],
          db |-> [d EXCEPT !.articles = d.articles @@
                       (d.nextArticleId :> ArticleRow(art)),
                     !.nextArticleId = d.nextArticleId + 1]]
    ELSE [art |-> art,
          db |-> [d EXCEPT !.articles =
                       IF art.id \in DOMAIN d.articles
                       THEN [d.articles EXCEPT ![art.id] = ArticleRow(art)]
                       ELSE d.articles @@ (art.id :> ArticleRow(art))]]

\* ----------------------------------------------- ArticleRevision.save()
\* A call in progress: the two Python objects, the store, and the exception
\* raised so far ("ok" when none).
Call(art, rev, d) ==
    [art |-> art, rev |-> rev, node |-> None, db |-> d, status |-> "ok"]

\* Variant: the predecessor is the newest row of the whole table, the
\* article left out of the lookup.
RsPrevious_AnyArticle(c) ==
    IF /\ c.rev.id = None
       /\ c.rev.previous_revision = None
       /\ c.db.revisions # {}
    THEN [c EXCEPT !.rev.previous_revision = Max(RevisionIds(c.db.revisions))]
    ELSE c

\* l.317-323: a new revision without predecessor takes the article
\* instance's current revision (which, being a saved row, is never the
\* unsaved revision itself, l.321).
RsPrevious(c) ==
    IF /\ c.rev.id = None
       /\ c.rev.previous_revision = None
       /\ c.rev.article # None
       /\ c.art.current_revision # None
    THEN [c EXCEPT !.rev.previous_revision = c.art.current_revision]
    ELSE c

\* Variant: the derived number skips one.
RsNumber_SkipOne(c) ==
    IF c.rev.revision_number = Unset \/ c.rev.revision_number = 0
    THEN [c EXCEPT !.rev.revision_number =
             IF RevisionsOf(c.db.revisions, c.rev.article) = {}
             THEN 1
             ELSE LatestNumber(c.db.revisions, c.rev.article) + 2]
    ELSE c

\* l.325-330: "if not self.revision_number" is true for None and for 0.
RsNumber(c) ==
    IF c.rev.revision_number = Unset \/ c.rev.revision_number = 0
    THEN [c EXCEPT !.rev.revision_number =
             IF RevisionsOf(c.db.revisions, c.rev.article) = {}
             THEN 1
             ELSE LatestNumber(c.db.revisions, c.rev.article) + 1]
    ELSE c

\* The constraints the INSERT of l.333 is checked against: the foreign keys
\* article and previous_revision, and Meta.unique_together l.361.
InsertRejected(rev, d) ==
    \/ rev.article \notin DOMAIN d.articles
    \/ rev.previous_revision # None /\ rev.previous_revision \notin RevisionIds(d.revisions)
    \/ \E r \in d.revisions :
          r.article = rev.article /\ r.revision_number = rev.revision_number

\* l.333 super().save(): INSERT of the new row.
RsInsert(c) ==
    IF c.status # "ok" THEN c
    ELSE IF InsertRejected(c.rev, c.db)
    THEN [c EXCEPT !.status = "IntegrityError"]
    ELSE LET row == [c.rev EXCEPT !.id = c.db.nextRevisionId]
         IN [c EXCEPT !.rev = row,
                      !.db.revisions = c.db.revisions \cup {row},
                      !.db.nextRevisionId = c.db.nextRevisionId + 1]

\* Variant: a directly saved first revision is not promoted.
RsPromote_Never(c) == c

\* l.335-338: the article instance has no current revision: this one is it.
RsPromote(c) ==
    IF c.status # "ok" THEN c
    ELSE IF c.art.current_revision = None
    THEN LET s == ArticleSave([c.art EXCEPT !.current_revision = c.rev.id], c.db)
         IN [c EXCEPT !.art = s.art, !.db = s.db]
    ELSE c

ArticleRevisionSave(c) == RsPromote(RsInsert(RsNumber(RsPrevious(c))))

\* ------------------------------------------------ Article.add_revision()
\* l.147: if not self.id: self.save()
ArBegin(c) ==
    IF c.art.id = None
    THEN LET s == ArticleSave(c.art, c.db) IN [c EXCEPT !.art = s.art, !.db = s.db]
    ELSE c

\* l.148-154: number from the store, article and predecessor from self.
ArPrepare(c) ==
    [c EXCEPT !.rev.revision_number =
                 IF RevisionsOf(c.db.revisions, c.art.id) = {}
                 THEN 0
                 ELSE LatestNumber(c.db.revisions, c.art.id) + 1,
              !.rev.article = c.art.id,
              !.rev.previous_revision = c.art.current_revision]

\* Variant: the current pointer is not advanced.
ArCurrent_NotAdvanced(c) == c

\* l.156-157: self.current_revision = new_revision; self.save()
ArCurrent(c) ==
    IF c.status # "ok" THEN c
    ELSE LET s == ArticleSave([c.art EXCEPT !.current_revision = c.rev.id], c.db)
         IN [c EXCEPT !.art = s.art, !.db = s.db]

\* add_revision(new_revision, save=True), as every call site passes it.
ArticleAddRevision(c) == ArCurrent(ArticleRevisionSave(ArPrepare(ArBegin(c))))

\* ------------------------------------------------------------- URLPath
\* node.get_children()
Children(ns, n) == {m \in DOMAIN ns : ns[m].parent = n}

\* MPTT level: the root of a tree is at level 0.
RECURSIVE Level(_, _)
Level(ns, n) == IF ns[n].parent = None THEN 0 ELSE 1 + Level(ns, ns[n].parent)

RECURSIVE Below(_, _)
Below(ns, S) ==
    LET T == S \cup {m \in DOMAIN ns : ns[m].parent \in S}
    IN IF T = S THEN S ELSE Below(ns, T)

\* node.get_descendants(include_self=...)
GetDescendants(ns, n, include_self) ==
    IF include_self THEN Below(ns, {n}) ELSE Below(ns, {n}) \ {n}

\* Variant: include_self left at its default.
SubtreeRows_WithoutSelf(ns, n) == GetDescendants(ns, n, FALSE)

\* l.110: self.get_descendants(include_self=True)
SubtreeRows(ns, n) == GetDescendants(ns, n, TRUE)

\* l.110 .order_by("-level"): every order of the rows with levels descending
\* (the store is free in how it orders rows of equal level).
RECURSIVE LevelOrders(_, _)
LevelOrders(ns, S) ==
    IF S = {} THEN {<<>>}
    ELSE LET deepest == {n \in S : \A m \in S : Level(ns, n) >= Level(ns, m)}
         IN UNION {{<<n>> \o q : q \in LevelOrders(ns, S \ {n})} : n \in deepest}

\* What Article.delete() collects through on_delete=CASCADE: revisions and
\* bindings of the article and URLPaths pointing at it (urlpath.py l.41);
\* articles whose current_revision is collected (article.py l.24-27),
\* revisions whose previous_revision is collected (l.252), children of
\* collected URLPaths (urlpath.py l.51) and their bindings (l.38).
RECURSIVE Collect(_, _)
Collect(d, s) ==
    LET R == s.R \cup {r.id : r \in {x \in d.revisions :
                          x.article \in s.A \/ x.previous_revision \in s.R}}
        A == s.A \cup {a \in DOMAIN d.articles : d.articles[a].current_revision \in R}
        N == s.N \cup {n \in DOMAIN d.nodes :
                          d.nodes[n].article \in A \/ d.nodes[n].parent \in s.N}
        B == s.B \cup {b \in d.bindings : b.article \in A \/ b.object_id \in N}
        t == [A |-> A, R |-> R, N |-> N, B |-> B]
    IN IF t = s THEN s ELSE Collect(d, t)

\* article.delete()
ArticleDelete(a, d) ==
    LET s == Collect(d, [A |-> {a}, R |-> {}, N |-> {}, B |-> {}])
    IN [d EXCEPT !.articles = [x \in DOMAIN d.articles \ s.A |-> d.articles[x]],
                 !.revisions = {r \in d.revisions : r.id \notin s.R},
                 !.nodes = [x \in DOMAIN d.nodes \ s.N |-> d.nodes[x]],
                 !.bindings = d.bindings \ s.B]

\* l.110-112: the loop over the rows fetched at its start.  rows[i] is the
\* article id held by the i-th row; descendant.article raises DoesNotExist
\* when that article is gone, and fault = i makes the i-th deletion raise.
RECURSIVE DeleteLoop(_, _, _, _)
DeleteLoop(rows, i, d, fault) ==
    IF i > Len(rows) THEN [db |-> d, status |-> "ok"]
    ELSE IF fault = i THEN [db |-> d, status |-> "DatabaseError"]
    ELSE IF rows[i] \notin DOMAIN d.articles THEN [db |-> d, status |-> "DoesNotExist"]
    ELSE DeleteLoop(rows, i + 1, ArticleDelete(rows[i], d), fault)

\* Variant: no transaction around the loop, its writes stay.
Atomic_NoRollback(before, after) == after

\* l.109 with transaction.atomic(): the block's writes are committed
\* together when it ends normally and rolled back when it raises.
Atomic(before, after) ==
    IF after.status = "ok" THEN after
    ELSE [db |-> before, status |-> after.status]

\* l.103-114 delete_subtree: l.113-114 catches and logs whatever was raised.
URLPathDeleteSubtree(order, d, fault) ==
    LET rows == [i \in 1..Len(order) |-> d.nodes[order[i]].article]
        r == Atomic(d, DeleteLoop(rows, 1, d, fault))
    IN [db |-> r.db, status |-> IF r.status = "ok" THEN "ok" ELSE "logged"]

\* The constraints a URLPath INSERT is checked against: the foreign keys
\* parent and article, and unique_together (site, parent, slug) l.150, which
\* the store applies only to rows where none of the three is NULL.
NodeRejected(row, d) ==
    \/ row.parent # None /\ row.parent \notin DOMAIN d.nodes
    \/ row.article \notin DOMAIN d.articles
    \/ /\ row.parent # None
       /\ row.slug # NoSlug
       /\ \E m \in DOMAIN d.nodes :
             /\ d.nodes[m].site = row.site
             /\ d.nodes[m].parent = row.parent
             /\ d.nodes[m].slug = row.slug

\* cls.objects.create(site=..., parent=..., slug=..., article=...)
URLPathCreate(row, c) ==
    IF c.status # "ok" THEN c
    ELSE IF NodeRejected(row, c.db)
    THEN [c EXCEPT !.status = "IntegrityError"]
    ELSE [c EXCEPT !.db.nodes = c.db.nodes @@ (c.db.nextNodeId :> row),
                   !.db.nextNodeId = c.db.nextNodeId + 1,
                   !.node = c.db.nextNodeId]

\* l.237-244 on_article_relation_save, the post_save handler of a binding.
OnArticleRelationSave_Skipped(b, d) == d
OnArticleRelationSave(b, d) ==
    [d EXCEPT !.nodes = [n \in DOMAIN d.nodes |->
                            IF n = b.object_id
                            THEN [d.nodes[n] EXCEPT !.article = b.article]
                            ELSE d.nodes[n]]]

\* article.py l.159-166 add_object_relation for a URLPath: get_or_create of
\* the binding; Meta.unique_together l.216 allows one binding per target.
\* get_or_create inserts inside transaction.atomic() and post_save is sent
\* by the save it makes there, so the insert and the handler's update are
\* one transaction.
AddObjectRelation_Unconstrained(c) ==
    IF c.status # "ok" THEN c
    ELSE LET b == [article |-> c.art.id, object_id |-> c.node]
         IN IF b \in c.db.bindings THEN c
            ELSE [c EXCEPT !.db = OnArticleRelationSave(
                                     b, [c.db EXCEPT !.bindings = c.db.bindings \cup {b}])]
AddObjectRelation(c) ==
    IF c.status # "ok" THEN c
    ELSE LET b == [article |-> c.art.id, object_id |-> c.node]
         IN IF b \in c.db.bindings THEN c
            ELSE IF \E x \in c.db.bindings : x.object_id = b.object_id
            THEN [c EXCEPT !.status = "IntegrityError"]
            ELSE [c EXCEPT !.db = OnArticleRelationSave(
                                     b, [c.db EXCEPT !.bindings = c.db.bindings \cup {b}])]

\* cls.objects.root_nodes().filter(site=site)
RootNodes(ns, site) == {n \in DOMAIN ns : ns[n].parent = None /\ ns[n].site = site}

\* urlpath.py l.221-225: create_article up to the insert of the URLPath.
URLPathCreateArticleNode(parent, slug, site, d) ==
    LET c0 == Call(NewArticleObject, NewRevisionObject, d)
        c1 == ArticleAddRevision(c0)
        c2 == IF c1.status = "ok"
              THEN LET s == ArticleSave(c1.art, c1.db)
                   IN [c1 EXCEPT !.art = s.art, !.db = s.db]
              ELSE c1
    IN URLPathCreate([parent |-> parent, slug |-> slug, site |-> site,
                      article |-> c2.art.id], c2)

\* urlpath.py l.216-227 create_article
URLPathCreateArticle(parent, slug, site, d) ==
    AddObjectRelation(URLPathCreateArticleNode(parent, slug, site, d))

\* urlpath.py l.199-214 create_root
URLPathCreateRoot(site, d) ==
    IF RootNodes(d.nodes, site) = {}
    THEN URLPathCreateArticle(None, NoSlug, site, d)
    ELSE [Call(NewArticleObject, NewRevisionObject, d) EXCEPT
             !.node = CHOOSE n \in RootNodes(d.nodes, site) :
                         \A m \in RootNodes(d.nodes, site) : n <= m]

\* urlpath.py l.152-160 clean, of an instance with primary key id (None
\* when the instance was never saved).  Model.save() and objects.create()
\* do not call clean(); it runs when a caller asks for validation.
URLPathClean(row, id, d) ==
    IF row.slug # NoSlug /\ row.parent = None THEN "ValidationError"
    ELSE IF row.slug = NoSlug /\ row.parent # None THEN "ValidationError"
    ELSE IF row.parent = None /\ RootNodes(d.nodes, row.site) \ {id} # {}
    THEN "ValidationError"
    ELSE "ok"

\* urlpath.py l.144: the assertion of delete().
DeleteRefused_AnyChildren(ns, n) == Children(ns, n) # {}
DeleteRefused(ns, n) == ns[n].parent # None /\ Children(ns, n) # {}

\* urlpath.py l.143-145 delete: the assertion, then the model's delete, which
\* removes the row, the rows that reference it through parent
\* (on_delete=CASCADE, l.51) and the bindings of the removed rows
\* (GenericRelation, l.38).  The documents stay.
URLPathDelete(n, d) ==
    IF DeleteRefused(d.nodes, n) THEN [db |-> d, status |-> "AssertionError"]
    ELSE LET gone == Below(d.nodes, {n})
             keep == DOMAIN d.nodes \ gone
         IN [db |-> [d EXCEPT !.nodes = [m \in keep |-> d.nodes[m]],
                              !.bindings = {b \in d.bindings : b.object_id \notin gone}],
             status |-> "ok"]

\* ------------------------------------------------------ path resolution
\* A Python str is the sequence of its characters.
Sep == "/"

\* The slugs that resolution is exercised with: two spellings that differ
\* in case only.
PathSlugs == {"Foo", "foo"}

\* The characters of a slug; `obj.slug if obj.slug else ""` (l.87) for None.
Chars(slug) ==
    CASE slug = "Foo" -> <<"F", "o", "o">>
      [] slug = "foo" -> <<"f", "o", "o">>
      [] slug = "a" -> <<"a">>
      [] slug = "b" -> <<"b">>
      [] OTHER -> <<>>

LowerChar(ch) == IF ch = "F" THEN "f" ELSE ch

Lower(str) == [i \in DOMAIN str |-> LowerChar(str[i])]

\* "/".join(strs)
RECURSIVE Join(_)
Join(strs) ==
    IF strs = <<>> THEN <<>>
    ELSE IF Len(strs) = 1 THEN strs[1]
    ELSE strs[1] \o <<Sep>> \o Join(Tail(strs))

\* path.lstrip("/"), path.rstrip("/")
RECURSIVE LStrip(_)
LStrip(str) == IF str # <<>> /\ Head(str) = Sep THEN LStrip(Tail(str)) ELSE str

RECURSIVE RStrip(_)
RStrip(str) ==
    IF str # <<>> /\ str[Len(str)] = Sep
    THEN RStrip(SubSeq(str, 1, Len(str) - 1))
    ELSE str

\* path.split('/')
RECURSIVE Split(_)
Split(str) ==
    IF \A i \in DOMAIN str : str[i] # Sep THEN <<str>>
    ELSE LET k == CHOOSE i \in DOMAIN str :
                      str[i] = Sep /\ \A j \in 1..(i - 1) : str[j] # Sep
         IN <<SubSeq(str, 1, k - 1)>> \o Split(SubSeq(str, k + 1, Len(str)))

\* node.get_ancestors(): from the root down to the parent.
RECURSIVE GetAncestors(_, _)
GetAncestors(ns, n) ==
    IF ns[n].parent = None THEN <<>>
    ELSE GetAncestors(ns, ns[n].parent) \o <<ns[n].parent>>

\* urlpath.py l.82-89 path, of node n whose cached_ancestors are cached.
URLPathPath(ns, n, cached) ==
    IF ns[n].parent = None THEN <<>>
    ELSE LET ancestors == SelectSeq(cached, LAMBDA a : ns[a].parent # None)
             objs == ancestors \o <<n>>
             slugs == [i \in 1..Len(objs) |-> Chars(ns[objs[i]].slug)]
         IN Join(slugs) \o <<Sep>>

Raised(status) == [status |-> status, node |-> None, ancestors |-> <<>>]

\* urlpath.py l.118-131 root, for the current site.
Root_FirstOfSeveral(ns, site) ==
    LET root_nodes == RootNodes(ns, site)
    IN IF root_nodes = {} THEN Raised("NoRootURL")
       ELSE [status |-> "ok",
             node |-> CHOOSE r \in root_nodes : \A m \in root_nodes : r <= m,
             ancestors |-> <<>>]
Root(ns, site) ==
    LET root_nodes == RootNodes(ns, site)
    IN IF root_nodes = {} THEN Raised("NoRootURL")
       ELSE IF Cardinality(root_nodes) > 1 THEN Raised("MultipleRootURLs")
       ELSE [status |-> "ok", node |-> CHOOSE r \in root_nodes : TRUE,
             ancestors |-> <<>>]

\* The lookups of l.185 (slug=slug) and l.189 (slug__iexact=slug) on one
\* row; a NULL slug equals no string.
Match_IgnoringCase(sensitive, slug, seg) ==
    slug # NoSlug /\ Lower(Chars(slug)) = Lower(seg)
Match(sensitive, slug, seg) ==
    /\ slug # NoSlug
    /\ IF sensitive THEN Chars(slug) = seg
       ELSE Lower(Chars(slug)) = Lower(seg)

\* urlpath.py l.183-192: the loop, from segment i on, standing at parent.
RECURSIVE Walk(_, _, _, _, _, _)
Walk(ns, sensitive, slugs, i, parent, cached) ==
    IF i > Len(slugs)
    THEN [status |-> "ok", node |-> parent, ancestors |-> cached]
    ELSE LET found == {c \in Children(ns, parent) :
                          Match(sensitive, ns[c].slug, slugs[i])}
         IN IF found = {} THEN Raised("DoesNotExist")
            ELSE IF Cardinality(found) > 1 THEN Raised("MultipleObjectsReturned")
            ELSE Walk(ns, sensitive, slugs, i + 1, CHOOSE c \in found : TRUE,
                      cached \o <<parent>>)

\* urlpath.py l.162-194 get_by_path, with the current site and
\* settings.URL_CASE_SENSITIVE.
URLPathGetByPath(ns, site, sensitive, path) ==
    LET p == RStrip(LStrip(path))
    IN IF p = <<>> THEN Root(ns, site)
       ELSE LET r == Root(ns, site)
            IN IF r.status # "ok" THEN r
               ELSE Walk(ns, sensitive, Split(p), 1, r.node, <<>>)

\* The paths asked for: up to one leading and one trailing separator
\* around segments spelled as slugs.
Slashes(k) == [i \in 1..k |-> Sep]

MaxSegments == MaxNodes - 1

SegmentLists == UNION {[1..k -> PathSlugs] : k \in 0..MaxSegments}

Spell(lead, segs, trail) ==
    Slashes(lead) \o Join([i \in 1..Len(segs) |-> Chars(segs[i])]) \o Slashes(trail)

\* ---------------------------------------------------------- permissions
UserIds == {1, 2}
GroupIds == {1}

\* request.user: AnonymousUser (no primary key, no groups) or a User with
\* its groups.  moderator and deleter are the answers of the permission
\* policy (permissions.can_moderate, permissions.can_delete) for this user
\* on the document at hand.
Users ==
    [is_anonymous : {TRUE}, id : {None}, groups : {{}},
     moderator : BOOLEAN, deleter : BOOLEAN]
    \cup
    [is_anonymous : {FALSE}, id : UserIds, groups : SUBSET GroupIds,
     moderator : BOOLEAN, deleter : BOOLEAN]

\* The fields of an Article that the permission checks read (l.36-45);
\* deleted: current_revision is set and its deleted flag is on.
ArticleRows ==
    [owner : {None, 1}, group : {None} \cup GroupIds, group_read : BOOLEAN,
     group_write : BOOLEAN, other_read : BOOLEAN, other_write : BOOLEAN,
     deleted : BOOLEAN]

\* article.py l.88-91 can_delete, can_moderate: what the policy answers.
ArticleCanDelete(a, user) == user.deleter
ArticleCanModerate(a, user) == user.moderator

\* user == self.owner: an AnonymousUser equals neither a User nor None.
IsOwner(a, user) == ~user.is_anonymous /\ user.id = a.owner

\* article.py l.50-69 can_read; anonymous is settings.ANONYMOUS.
ArticleCanRead_DeletedAfterOther(a, user, anonymous) ==
    IF user.is_anonymous /\ ~anonymous THEN FALSE
    ELSE IF a.other_read THEN TRUE
    ELSE IF a.deleted /\ ~ArticleCanDelete(a, user) THEN FALSE
    ELSE IF user.is_anonymous THEN FALSE
    ELSE IF IsOwner(a, user) THEN TRUE
    ELSE IF a.group_read /\ a.group # None /\ a.group \in user.groups THEN TRUE
    ELSE IF ArticleCanModerate(a, user) THEN TRUE
    ELSE FALSE
ArticleCanRead_AnonymousFallsThrough(a, user, anonymous) ==
    IF a.deleted /\ ~ArticleCanDelete(a, user) THEN FALSE
    ELSE IF user.is_anonymous /\ ~anonymous THEN FALSE
    ELSE IF a.other_read THEN TRUE
    ELSE IF IsOwner(a, user) THEN TRUE
    ELSE IF a.group_read /\ a.group # None /\ a.group \in user.groups THEN TRUE
    ELSE IF ArticleCanModerate(a, user) THEN TRUE
    ELSE FALSE
ArticleCanRead(a, user, anonymous) ==
    IF a.deleted /\ ~ArticleCanDelete(a, user) THEN FALSE
    ELSE IF user.is_anonymous /\ ~anonymous THEN FALSE
    ELSE IF a.other_read THEN TRUE
    ELSE IF user.is_anonymous THEN FALSE
    ELSE IF IsOwner(a, user) THEN TRUE
    ELSE IF a.group_read /\ a.group # None /\ a.group \in user.groups THEN TRUE
    ELSE IF ArticleCanModerate(a, user) THEN TRUE
    ELSE FALSE

\* article.py l.71-86 can_write; anonymous is settings.ANONYMOUS_WRITE.  A
\* User instance is truthy (the `and user` of l.82).
ArticleCanWrite_AnonymousFallsThrough(a, user, anonymous) ==
    IF user.is_anonymous /\ ~anonymous THEN FALSE
    ELSE IF a.other_write THEN TRUE
    ELSE IF IsOwner(a, user) THEN TRUE
    ELSE IF a.group_write /\ a.group # None /\ a.group \in user.groups THEN TRUE
    ELSE IF ArticleCanModerate(a, user) THEN TRUE
    ELSE FALSE
ArticleCanWrite_DeletedDenied(a, user, anonymous) ==
    IF a.deleted /\ ~ArticleCanDelete(a, user) THEN FALSE
    ELSE IF user.is_anonymous /\ ~anonymous THEN FALSE
    ELSE IF a.other_write THEN TRUE
    ELSE IF user.is_anonymous THEN FALSE
    ELSE IF IsOwner(a, user) THEN TRUE
    ELSE IF a.group_write /\ a.group # None /\ a.group \in user.groups THEN TRUE
    ELSE IF ArticleCanModerate(a, user) THEN TRUE
    ELSE FALSE
ArticleCanWrite(a, user, anonymous) ==
    IF user.is_anonymous /\ ~anonymous THEN FALSE
    ELSE IF a.other_write THEN TRUE
    ELSE IF user.is_anonymous THEN FALSE
    ELSE IF IsOwner(a, user) THEN TRUE
    ELSE IF a.group_write /\ a.group # None /\ a.group \in user.groups THEN TRUE
    ELSE IF ArticleCanModerate(a, user) THEN TRUE
    ELSE FALSE

\* --------------------------------------------- recursive permissions
\* urlpath.py l.34: INHERIT_PERMISSIONS is a class attribute of URLPath.
INHERIT_PERMISSIONS == TRUE

\* article.py l.95-98 descendant_objects: the URLPath rows below the
\* URLPaths the article is bound to (every binding of the store is to an
\* MPTT model).
DescendantObjects(art, d) ==
    UNION {GetDescendants(d.nodes, b.object_id, FALSE) :
              b \in {x \in d.bindings : x.article = art.id}}

\* urlpath.py l.140-141 save of a URLPath instance: Model.save() writes the
\* columns of the URLPath table; an attribute that is no field of URLPath
\* is not written.
URLPathSave(instance, n, d) ==
    IF n \in DOMAIN d.nodes
    THEN [d EXCEPT !.nodes = [d.nodes EXCEPT ![n] =
              [parent |-> instance.parent, slug |-> instance.slug,
               site |-> instance.site, article |-> instance.article]]]
    ELSE d

\* The URLPath instance of row n with the attributes attrs assigned to it.
Descendant(d, n, attrs) ==
    [parent |-> d.nodes[n].parent, slug |-> d.nodes[n].slug,
     site |-> d.nodes[n].site, article |-> d.nodes[n].article, attrs |-> attrs]

\* The loop of l.116-121, l.125-128, l.131-134 over the descendants todo:
\* the attributes attrs are assigned to each URLPath instance, which is
\* then saved.
RECURSIVE SetRecursive(_, _, _)
SetRecursive(todo, attrs, d) ==
    IF todo = {} THEN d
    ELSE LET n == CHOOSE m \in todo : \A k \in todo : m <= k
         IN SetRecursive(todo \ {n}, attrs,
                         IF INHERIT_PERMISSIONS
                         THEN URLPathSave(Descendant(d, n, attrs), n, d)
                         ELSE d)

\* article.py l.115-121 set_permissions_recursive
ArticleSetPermissionsRecursive(art, d) ==
    SetRecursive(DescendantObjects(art, d),
                 [group_read |-> art.access.group_read,
                  group_write |-> art.access.group_write,
                  other_read |-> art.access.other_read,
                  other_write |-> art.access.other_write], d)

\* article.py l.123-128 set_group_recursive
ArticleSetGroupRecursive(art, d) ==
    SetRecursive(DescendantObjects(art, d), [group |-> art.access.group], d)

\* article.py l.130-134 set_owner_recursive
ArticleSetOwnerRecursive(art, d) ==
    SetRecursive(DescendantObjects(art, d), [owner |-> art.access.owner], d)

\* The permission settings a caller gives a document.
Restricted ==
    [DefaultAccess EXCEPT !.group_read = FALSE, !.group_write = FALSE,
                          !.other_read = FALSE, !.other_write = FALSE]
Owned == [DefaultAccess EXCEPT !.owner = 1, !.group = 1]
AccessChoices == {DefaultAccess, Restricted, Owned}

\* ------------------------------------------------ logical deletion
\* urlpath.py l.99: ancestor.article.current_revision.deleted == True, read
\* from the store d; a document without current revision has no .deleted.
RevisionDeleted(d, n) ==
    LET current == d.articles[d.nodes[n].article].current_revision
    IN IF current = None THEN "AttributeError"
       ELSE IF RevisionById(d.revisions, current).deleted THEN "deleted"
       ELSE "live"

\* urlpath.py l.98-101: the loop of first_deleted_ancestor over chain.
RECURSIVE DeletedLoop(_, _, _)
DeletedLoop(d, chain, i) ==
    IF i > Len(chain) THEN [status |-> "ok", node |-> None]
    ELSE LET state == RevisionDeleted(d, chain[i])
         IN IF state = "AttributeError" THEN [status |-> state, node |-> None]
            ELSE IF state = "deleted" THEN [status |-> "ok", node |-> chain[i]]
            ELSE DeletedLoop(d, chain, i + 1)

\* urlpath.py l.97-101 first_deleted_ancestor, cached_ancestors read from
\* the store (l.69-70).
DeletionChain_SelfFirst(d, n) == <<n>> \o GetAncestors(d.nodes, n)
DeletionChain(d, n) == GetAncestors(d.nodes, n) \o <<n>>

URLPathFirstDeletedAncestor(d, n) == DeletedLoop(d, DeletionChain(d, n), 1)

\* urlpath.py l.91-95 is_deleted
URLPathIsDeleted(d, n) ==
    LET first == URLPathFirstDeletedAncestor(d, n)
    IN [status |-> first.status, result |-> first.node # None]

\* ------------------------------------------------- django_notify
\* The subscriptions table, in the order the store returns its rows: the
\* querysets of l.90-96 are never ordered (the result of order_by, l.96, is
\* dropped), so the order is the store's choice.
MaxSubscriptions == 4
NotifyUsers == {1, 2}
NotifyKeys == {"edit", "other"}
SubscriptionRows == [user : NotifyUsers, key : NotifyKeys]
SubscriptionLists == UNION {[1..k -> SubscriptionRows] : k \in 0..MaxSubscriptions}

\* models.py l.90-91: the subscriptions of the notification type key.
KeyMatches(s, key) == s.key = key
Matching(subs, key) == SelectSeq(subs, LAMBDA s : KeyMatches(s, key))

\* models.py l.97-106: the loop over the subscriptions, skipping a
\* subscription whose user is the user of the subscription before it.
RECURSIVE NotifyLoop(_, _, _, _)
NotifyLoop(subs, i, prev_user, objects_created) ==
    IF i > Len(subs) THEN objects_created
    ELSE IF subs[i].user = prev_user
         THEN NotifyLoop(subs, i + 1, prev_user, objects_created)
         ELSE NotifyLoop(subs, i + 1, subs[i].user,
                         Append(objects_created, [subscription |-> subs[i]]))

\* models.py l.82-108 Notification.create_notifications(key).
NotificationCreateNotifications(subs, key) ==
    IF key = ""
    THEN [status |-> "KeyError", objects_created |-> <<>>]
    ELSE [status |-> "ok",
          objects_created |-> NotifyLoop(Matching(subs, key), 1, None, <<>>)]

\* ------------------------------------------------------------- actions
Idle == [w \in Writers |-> "idle"]
NoInflight == [w \in Writers |-> NewRevisionObject]

\* The last operation: its name, the exception it raised or logged ("ok"
\* when none), the article and the tree node it acted on, and the number of
\* rows it iterated over (delete_subtree prints one line per row).  call
\* holds the arguments and the return value of a call that only reads.
NoCall == <<>>

Outcome(op, status, a, n, k) ==
    [op |-> op, status |-> status, article |-> a, node |-> n, rows |-> k,
     call |-> NoCall]

Init ==
    /\ articles = EmptyDB.articles
    /\ revisions = EmptyDB.revisions
    /\ nodes = EmptyDB.nodes
    /\ bindings = EmptyDB.bindings
    /\ nextArticleId = EmptyDB.nextArticleId
    /\ nextRevisionId = EmptyDB.nextRevisionId
    /\ nextNodeId = EmptyDB.nextNodeId
    /\ local = [w \in Writers |-> NewArticleObject]
    /\ pc = Idle
    /\ inflight = NoInflight
    /\ outcome = Outcome("init", "ok", None, None, 0)

\* Article(): the caller constructs a fresh instance.
NewArticle(w) ==
    /\ local[w] # NewArticleObject
    /\ local' = [local EXCEPT ![w] = NewArticleObject]
    /\ outcome' = Outcome("new", "ok", None, None, 0)
    /\ UNCHANGED <<articles, revisions, nodes, bindings, nextArticleId,
                   nextRevisionId, nextNodeId, pc, inflight>>

\* Article.objects.get(id=a): the caller loads its own copy.
LoadArticle(w, a) ==
    /\ a \in DOMAIN articles
    /\ local[w] # ArticleGet(articles, a)
    /\ local' = [local EXCEPT ![w] = ArticleGet(articles, a)]
    /\ outcome' = Outcome("load", "ok", a, None, 0)
    /\ UNCHANGED <<articles, revisions, nodes, bindings, nextArticleId,
                   nextRevisionId, nextNodeId, pc, inflight>>

\* article.add_revision(ArticleRevision(...), save=True) run to completion.
AddRevision(w) ==
    /\ local[w].id = None => nextArticleId <= MaxArticles
    /\ nextRevisionId <= MaxRevisions
    /\ LET c == ArticleAddRevision(Call(local[w], NewRevisionObject, DB))
       IN /\ Commit(c.db)
          /\ local' = [local EXCEPT ![w] = c.art]
          /\ outcome' = Outcome("add_revision", c.status, c.art.id, None, 0)
    /\ UNCHANGED <<pc, inflight>>

\* ArticleRevision(article=article, ...).save(): a new revision saved
\* directly, not through add_revision.
RevisionSave(w) ==
    /\ local[w].id # None
    /\ nextRevisionId <= MaxRevisions
    /\ LET c == ArticleRevisionSave(
                   Call(local[w], [NewRevisionObject EXCEPT !.article = local[w].id], DB))
       IN /\ Commit(c.db)
          /\ local' = [local EXCEPT ![w] = c.art]
          /\ outcome' = Outcome("revision_save", c.status, c.art.id, None, 0)
    /\ UNCHANGED <<pc, inflight>>

\* URLPath.create_root(site=site)
CreateRoot(site) ==
    /\ nextArticleId <= MaxArticles
    /\ nextRevisionId <= MaxRevisions
    /\ nextNodeId <= MaxNodes
    /\ LET c == URLPathCreateRoot(site, DB)
       IN /\ Commit(c.db)
          /\ outcome' = Outcome("create_root", c.status, c.art.id, c.node, 0)
    /\ UNCHANGED <<local, pc, inflight>>

\* URLPath.create_article(parent, slug, site=site)
CreateArticle(parent, slug, site) ==
    /\ parent = None \/ parent \in DOMAIN nodes
    /\ nextArticleId <= MaxArticles
    /\ nextRevisionId <= MaxRevisions
    /\ nextNodeId <= MaxNodes
    /\ LET c == URLPathCreateArticle(parent, slug, site, DB)
       IN /\ Commit(c.db)
          /\ outcome' = Outcome("create_article", c.status, c.art.id, c.node, 0)
    /\ UNCHANGED <<local, pc, inflight>>

\* node.delete_subtree(); fault = 0 when no deletion is made to fail.
DeleteSubtree(n, fault) ==
    /\ n \in DOMAIN nodes
    /\ fault <= Cardinality(SubtreeRows(nodes, n))
    /\ \E order \in LevelOrders(nodes, SubtreeRows(nodes, n)) :
          LET r == URLPathDeleteSubtree(order, DB, fault)
          IN /\ Commit(r.db)
             /\ outcome' = Outcome("delete_subtree", r.status, None, n, Len(order))
    /\ UNCHANGED <<local, pc, inflight>>

\* article = Article(); article.save(): the empty shell of the two-phase
\* construction (an Article row without revisions).
ArticleCreate(w) ==
    /\ local[w].id = None
    /\ nextArticleId <= MaxArticles
    /\ LET s == ArticleSave(local[w], DB)
       IN /\ Commit(s.db)
          /\ local' = [local EXCEPT ![w] = s.art]
          /\ outcome' = Outcome("article_save", "ok", s.art.id, None, 0)
    /\ UNCHANGED <<pc, inflight>>

\* node.delete()
Delete(n) ==
    /\ n \in DOMAIN nodes
    /\ LET r == URLPathDelete(n, DB)
       IN /\ Commit(r.db)
          /\ outcome' = Outcome("delete", r.status, None, n, 0)
    /\ UNCHANGED <<local, pc, inflight>>

\* URLPath(site=site, parent=parent, slug=slug).clean() on an instance that
\* was not saved.
Clean(parent, slug, site) ==
    /\ parent = None \/ parent \in DOMAIN nodes
    /\ outcome' = Outcome("clean",
                          URLPathClean([parent |-> parent, slug |-> slug, site |-> site,
                                        article |-> None], None, DB),
                          None, None, 0)
    /\ UNCHANGED <<articles, revisions, nodes, bindings, nextArticleId,
                   nextRevisionId, nextNodeId, local, pc, inflight>>

\* URLPath.get_by_path(path) in a request for site, under the setting
\* URL_CASE_SENSITIVE = sensitive.
GetByPath(site, sensitive, path) ==
    /\ LET r == URLPathGetByPath(nodes, site, sensitive, path)
       IN outcome' = [Outcome("get_by_path", r.status, None, r.node, 0) EXCEPT
                         !.call = [site |-> site, sensitive |-> sensitive,
                                   path |-> path, ancestors |-> r.ancestors]]
    /\ UNCHANGED <<articles, revisions, nodes, bindings, nextArticleId,
                   nextRevisionId, nextNodeId, local, pc, inflight>>

\* article.can_read(user) on a document with the fields of a, under
\* settings.ANONYMOUS = anonymous.
CanRead(a, user, anonymous) ==
    /\ outcome' = [Outcome("can_read", "ok", None, None, 0) EXCEPT
                      !.call = [article |-> a, user |-> user, anonymous |-> anonymous,
                                result |-> ArticleCanRead(a, user, anonymous)]]
    /\ UNCHANGED <<articles, revisions, nodes, bindings, nextArticleId,
                   nextRevisionId, nextNodeId, local, pc, inflight>>

\* article.can_write(user) on a document with the fields of a, under
\* settings.ANONYMOUS_WRITE = anonymous.
CanWrite(a, user, anonymous) ==
    /\ outcome' = [Outcome("can_write", "ok", None, None, 0) EXCEPT
                      !.call = [article |-> a, user |-> user, anonymous |-> anonymous,
                                result |-> ArticleCanWrite(a, user, anonymous)]]
    /\ UNCHANGED <<articles, revisions, nodes, bindings, nextArticleId,
                   nextRevisionId, nextNodeId, local, pc, inflight>>

\* create_article by caller w, l.221-225: no transaction is opened, so the
\* document, its revision and the URLPath are committed one by one and
\* are in the store before l.226 runs.  The caller keeps the article.
CreateArticleNode(w, parent, slug, site) ==
    /\ pc[w] = "idle"
    /\ parent = None \/ parent \in DOMAIN nodes
    /\ nextArticleId <= MaxArticles
    /\ nextRevisionId <= MaxRevisions
    /\ nextNodeId <= MaxNodes
    /\ LET c == URLPathCreateArticleNode(parent, slug, site, DB)
       IN /\ Commit(c.db)
          /\ local' = [local EXCEPT ![w] = c.art]
          /\ pc' = [pc EXCEPT ![w] = IF c.status = "ok" THEN "relate" ELSE "idle"]
          /\ outcome' = Outcome("create_article",
                                IF c.status = "ok" THEN "running" ELSE c.status,
                                c.art.id, c.node, 0)
    /\ UNCHANGED inflight

\* newpath of the create_article caller w is running: the URLPath row
\* inserted last (no other caller inserts URLPaths meanwhile).
NewPath == nextNodeId - 1

\* create_article by caller w, l.226-227: article.add_object_relation(newpath).
CreateArticleRelate(w) ==
    /\ pc[w] = "relate"
    /\ LET c == AddObjectRelation(
                    [Call(local[w], NewRevisionObject, DB) EXCEPT !.node = NewPath])
       IN /\ Commit(c.db)
          /\ outcome' = Outcome("create_article", c.status, local[w].id, NewPath, 0)
    /\ pc' = [pc EXCEPT ![w] = "idle"]
    /\ UNCHANGED <<local, inflight>>

\* article.add_object_relation(node) by caller w, who holds the article,
\* for the URLPath n.
Relate(w, n) ==
    /\ pc[w] = "idle"
    /\ local[w].id # None
    /\ n \in DOMAIN nodes
    /\ LET c == AddObjectRelation(
                    [Call(local[w], NewRevisionObject, DB) EXCEPT !.node = n])
       IN /\ Commit(c.db)
          /\ outcome' = Outcome("add_object_relation", c.status, local[w].id, n, 0)
    /\ UNCHANGED <<local, pc, inflight>>

\* article = Article.objects.get(id=a); the permission columns are
\* assigned from access; article.save().
SetAccess(a, access) ==
    /\ a \in DOMAIN articles
    /\ articles[a].access # access
    /\ LET s == ArticleSave([ArticleGet(articles, a) EXCEPT !.access = access], DB)
       IN /\ Commit(s.db)
          /\ outcome' = Outcome("article_save", "ok", a, None, 0)
    /\ UNCHANGED <<local, pc, inflight>>

\* Article.objects.get(id=a).set_permissions_recursive()
SetPermissionsRecursive(a) ==
    /\ a \in DOMAIN articles
    /\ Commit(ArticleSetPermissionsRecursive(ArticleGet(articles, a), DB))
    /\ outcome' = Outcome("set_permissions_recursive", "ok", a, None, 0)
    /\ UNCHANGED <<local, pc, inflight>>

\* Article.objects.get(id=a).set_group_recursive()
SetGroupRecursive(a) ==
    /\ a \in DOMAIN articles
    /\ Commit(ArticleSetGroupRecursive(ArticleGet(articles, a), DB))
    /\ outcome' = Outcome("set_group_recursive", "ok", a, None, 0)
    /\ UNCHANGED <<local, pc, inflight>>

\* Article.objects.get(id=a).set_owner_recursive()
SetOwnerRecursive(a) ==
    /\ a \in DOMAIN articles
    /\ Commit(ArticleSetOwnerRecursive(ArticleGet(articles, a), DB))
    /\ outcome' = Outcome("set_owner_recursive", "ok", a, None, 0)
    /\ UNCHANGED <<local, pc, inflight>>

\* Article.objects.get(id=a).add_revision(rev) with rev.deleted = deleted:
\* the document is flagged deleted, or restored, by its newest revision.
AddFlaggedRevision(a, deleted) ==
    /\ a \in DOMAIN articles
    /\ nextRevisionId <= MaxRevisions
    /\ LET art == ArticleGet(articles, a)
           c == ArticleAddRevision(
                    Call(art, [NewRevisionObject EXCEPT !.deleted = deleted], DB))
       IN /\ Commit(c.db)
          /\ outcome' = Outcome("add_revision", c.status, c.art.id, None, 0)
    /\ UNCHANGED <<local, pc, inflight>>

\* URLPath.objects.get(id=n): is_deleted() and first_deleted_ancestor().
IsDeleted(n) ==
    /\ n \in DOMAIN nodes
    /\ LET r == URLPathIsDeleted(DB, n)
       IN outcome' = [Outcome("is_deleted", r.status, None, n, 0) EXCEPT
                        !.call = [result |-> r.result,
                                  first |-> URLPathFirstDeletedAncestor(DB, n).node]]
    /\ UNCHANGED <<articles, revisions, nodes, bindings, nextArticleId,
                   nextRevisionId, nextNodeId, local, pc, inflight>>

\* Notification.create_notifications(key) over the subscriptions subs.
CreateNotifications(subs, key) ==
    LET r == NotificationCreateNotifications(subs, key)
    IN /\ outcome' = [Outcome("create_notifications", r.status, None, None, 0) EXCEPT
                         !.call = [subscriptions |-> subs, key |-> key,
                                   objects_created |-> r.objects_created]]
       /\ UNCHANGED <<articles, revisions, nodes, bindings, nextArticleId,
                      nextRevisionId, nextNodeId, local, pc, inflight>>

\* The revision chain driven by two callers, every call run to completion.
\* The tree needs a document for every node; the chain is driven over one
\* document fewer.
ChainArticles == MaxArticles - 1

Next ==
    \/ \E w \in Writers : NewArticle(w)
    \/ \E w \in Writers : nextArticleId <= ChainArticles /\ ArticleCreate(w)
    \/ \E w \in Writers, a \in 1..ChainArticles : LoadArticle(w, a)
    \/ \E w \in Writers :
          (local[w].id = None => nextArticleId <= ChainArticles) /\ AddRevision(w)
    \/ \E w \in Writers : RevisionSave(w)

Spec == Init /\ [][Next]_vars

\* The tree operations, with one caller adding revisions to the documents.
\* Children are created on the site of their parent.
TreeNext ==
    \/ \E site \in Sites : CreateRoot(site)
    \/ \E parent \in 1..MaxNodes, slug \in Slugs :
          parent \in DOMAIN nodes /\ CreateArticle(parent, slug, nodes[parent].site)
    \/ \E n \in 1..MaxNodes, fault \in 0..MaxNodes : DeleteSubtree(n, fault)
    \/ \E a \in 1..MaxArticles : LoadArticle(1, a)
    \/ AddRevision(1)

SpecTree == Init /\ [][TreeNext]_vars

\* The tree built by callers that pass any parent, slug and site, with the
\* single-node delete and the validation of unsaved nodes.
NodesNext ==
    \/ \E site \in Sites : CreateRoot(site)
    \/ \E parent \in 0..MaxNodes, slug \in Slugs \cup {NoSlug}, site \in Sites :
          CreateArticle(parent, slug, site)
    \/ \E n \in 1..MaxNodes : Delete(n)
    \/ \E parent \in 0..MaxNodes, slug \in Slugs \cup {NoSlug}, site \in Sites :
          Clean(parent, slug, site)

SpecNodes == Init /\ [][NodesNext]_vars

\* Path resolution over the trees that create_root and create_article
\* build.  A resolution only reads: the store after it is the store before
\* it, so the behaviours go on from the states the store operations left.
\* Resolution never reads the slug of a parentless node (l.84, l.185-189),
\* so parentless nodes are created without one; any number of them can be
\* created on a site.  Children are created on the site of their parent,
\* with or without slug.
Stored == outcome.op # "get_by_path"

PathNext ==
    \/ \E site \in Sites : Stored /\ CreateRoot(site)
    \/ \E site \in Sites : Stored /\ CreateArticle(None, NoSlug, site)
    \/ \E parent \in 1..MaxNodes, slug \in PathSlugs \cup {NoSlug} :
          /\ Stored
          /\ parent \in DOMAIN nodes
          /\ CreateArticle(parent, slug, nodes[parent].site)
    \/ \E site \in Sites, sensitive \in BOOLEAN, lead \in {0, 1}, trail \in {0, 1},
          segs \in SegmentLists :
          Stored /\ GetByPath(site, sensitive, Spell(lead, segs, trail))

SpecPath == Init /\ [][PathNext]_vars

\* The permission checks over every document, user and setting.  A check
\* only reads, so every check is made in the initial store.
Unasked == outcome.op = "init"

PermNext ==
    \/ \E a \in ArticleRows, user \in Users, anonymous \in BOOLEAN :
          Unasked /\ CanRead(a, user, anonymous)
    \/ \E a \in ArticleRows, user \in Users, anonymous \in BOOLEAN :
          Unasked /\ CanWrite(a, user, anonymous)

SpecPerm == Init /\ [][PermNext]_vars

\* create_article statement by statement by caller 1, next to caller 2 who
\* loads documents and binds them to URLPaths.
BindNext ==
    \/ \E site \in Sites : CreateArticleNode(1, None, NoSlug, site)
    \/ \E parent \in 1..MaxNodes, slug \in Slugs :
          parent \in DOMAIN nodes
          /\ CreateArticleNode(1, parent, slug, nodes[parent].site)
    \/ CreateArticleRelate(1)
    \/ \E a \in 1..MaxArticles : LoadArticle(2, a)
    \/ \E n \in 1..MaxNodes : Relate(2, n)

SpecBind == Init /\ [][BindNext]_vars

\* Subtrees deleted from a tree in which a document can be the document of
\* several URLPaths: caller 2 binds a loaded document to the URLPath that
\* create_article of caller 1 has inserted and not yet bound.
ShareNext ==
    \/ \E site \in Sites : CreateArticleNode(1, None, NoSlug, site)
    \/ \E parent \in 1..MaxNodes, slug \in Slugs :
          parent \in DOMAIN nodes
          /\ CreateArticleNode(1, parent, slug, nodes[parent].site)
    \/ CreateArticleRelate(1)
    \/ \E a \in 1..MaxArticles : LoadArticle(2, a)
    \/ \E n \in 1..MaxNodes : Relate(2, n)
    \/ \E n \in 1..MaxNodes : DeleteSubtree(n, 0)

SpecShare == Init /\ [][ShareNext]_vars

\* The tree with the permissions of its documents set one by one and
\* propagated downwards.
InheritNext ==
    \/ \E site \in Sites : CreateRoot(site)
    \/ \E parent \in 1..MaxNodes, slug \in Slugs :
          parent \in DOMAIN nodes /\ CreateArticle(parent, slug, nodes[parent].site)
    \/ \E a \in 1..MaxArticles, access \in AccessChoices : SetAccess(a, access)
    \/ \E a \in 1..MaxArticles : SetPermissionsRecursive(a)
    \/ \E a \in 1..MaxArticles : SetGroupRecursive(a)
    \/ \E a \in 1..MaxArticles : SetOwnerRecursive(a)

SpecInherit == Init /\ [][InheritNext]_vars

\* The tree with documents flagged deleted and restored, and the deletion
\* status asked of every node.
Answered == outcome.op = "is_deleted"

DeletedNext ==
    \/ \E site \in Sites : ~Answered /\ CreateRoot(site)
    \/ \E parent \in 1..MaxNodes, slug \in Slugs :
          ~Answered /\ parent \in DOMAIN nodes
                    /\ CreateArticle(parent, slug, nodes[parent].site)
    \/ \E a \in 1..MaxArticles, deleted \in BOOLEAN :
          ~Answered /\ AddFlaggedRevision(a, deleted)
    \/ \E n \in 1..MaxNodes : ~Answered /\ IsDeleted(n)

SpecDeleted == Init /\ [][DeletedNext]_vars

\* create_notifications over every subscriptions table, in every order.
NotifyNext ==
    \E subs \in SubscriptionLists, key \in NotifyKeys \cup {""} :
        Unasked /\ CreateNotifications(subs, key)

SpecNotify == Init /\ [][NotifyNext]_vars

\* ------------------------------------- add_revision, statement by statement
\* No transaction is opened in add_revision or ArticleRevision.save, so under
\* autocommit every statement of one call can be followed by statements of
\* another caller.  pc[w] names the statement caller w executes next.
Step(w, from, to, c) ==
    /\ pc[w] = from
    /\ Commit(c.db)
    /\ local' = [local EXCEPT ![w] = c.art]
    /\ inflight' = [inflight EXCEPT ![w] = IF to = "idle" THEN NewRevisionObject ELSE c.rev]
    /\ pc' = [pc EXCEPT ![w] = to]
    /\ outcome' = IF to = "idle"
                  THEN Outcome("add_revision", c.status, c.art.id, None, 0)
                  ELSE Outcome("step", "ok", c.art.id, None, 0)

InCall(w) == Call(local[w], inflight[w], DB)

\* l.147
StepBegin(w) ==
    /\ local[w].id = None => nextArticleId <= MaxArticles
    /\ nextRevisionId <= MaxRevisions
    /\ Step(w, "idle", "latest", ArBegin(InCall(w)))

\* l.148-154, then l.317-323 on entering new_revision.save()
StepPrepare(w) == Step(w, "latest", "number", RsPrevious(ArPrepare(InCall(w))))

\* l.325-330
StepNumber(w) == Step(w, "number", "insert", RsNumber(InCall(w)))

\* l.333
StepInsert(w) ==
    LET c == RsInsert(InCall(w))
    IN Step(w, "insert", IF c.status = "ok" THEN "promote" ELSE "idle", c)

\* l.335-338
StepPromote(w) == Step(w, "promote", "current", RsPromote(InCall(w)))

\* l.156-157
StepCurrent(w) == Step(w, "current", "idle", ArCurrent(InCall(w)))

ConcNext ==
    \/ \E w \in Writers : pc[w] = "idle" /\ NewArticle(w)
    \/ \E w \in Writers, a \in 1..MaxArticles : pc[w] = "idle" /\ LoadArticle(w, a)
    \/ \E w \in Writers : StepBegin(w)
    \/ \E w \in Writers : StepPrepare(w)
    \/ \E w \in Writers : StepNumber(w)
    \/ \E w \in Writers : StepInsert(w)
    \/ \E w \in Writers : StepPromote(w)
    \/ \E w \in Writers : StepCurrent(w)

SpecConc == Init /\ [][ConcNext]_vars

\* ===================================================== properties checked
Numbers(a) == {r.revision_number : r \in RevisionsOf(revisions, a)}

NoDuplicates(a) == Cardinality(Numbers(a)) = Cardinality(RevisionsOf(revisions, a))

NoGaps(a) ==
    LET N == Numbers(a)
    IN \A n \in N : (\E m \in N : m < n) => (n - 1) \in N

AddRevisionReturned == outcome.op = "add_revision" /\ outcome.status = "ok"

\* C1: after a successful add_revision(rev, save=True) the document's
\* current_revision is one of its revisions and carries the maximum
\* revision_number, and the document's revision numbers have no gaps and no
\* duplicates.
C1_CurrentIsLatestNoGaps ==
    AddRevisionReturned =>
        LET a == outcome.article
        IN /\ a \in DOMAIN articles
           /\ \E r \in RevisionsOf(revisions, a) :
                 /\ r.id = articles[a].current_revision
                 /\ r.revision_number = LatestNumber(revisions, a)
           /\ NoGaps(a)
           /\ NoDuplicates(a)

\* C1 witness: add_revision returned on a document that now has three
\* revisions, called through a copy of the document other than the one that
\* added the revision before.
C1_Witness ==
    /\ AddRevisionReturned
    /\ Cardinality(RevisionsOf(revisions, outcome.article)) >= 3
    /\ \E w \in Writers :
          /\ local[w].id = outcome.article
          /\ local[w].current_revision # articles[outcome.article].current_revision

C6_BothPathsGapFree ==
    \A a \in DOMAIN articles :
        RevisionsOf(revisions, a) # {} =>
            /\ NoGaps(a)
            /\ NoDuplicates(a)
            /\ articles[a].current_revision # None

\* C6 witness: a direct save has just added a third revision to a document
\* whose current revision, set by an earlier call, is an older one with a
\* predecessor of its own.
C6_Witness ==
    /\ outcome.op = "revision_save"
    /\ outcome.status = "ok"
    /\ Cardinality(RevisionsOf(revisions, outcome.article)) >= 3
    /\ \E r \in RevisionsOf(revisions, outcome.article) :
          /\ r.id = articles[outcome.article].current_revision
          /\ r.previous_revision # None
          /\ r.revision_number < LatestNumber(revisions, outcome.article)

\* C7 (as claimed): a revision persisted by add_revision(rev, save=True) has
\* number max(existing numbers of the document) + 1, or 0 when the document
\* had no revision.
C7_NumberIsMaxPlusOneOrZero ==
    [][(outcome'.op = "add_revision" /\ outcome'.status = "ok") =>
          \A r \in revisions' \ revisions :
              r.revision_number =
                  IF RevisionsOf(revisions, r.article) = {}
                  THEN 0
                  ELSE LatestNumber(revisions, r.article) + 1]_vars

\* C8: every revision with a non-null previous_revision has a predecessor
\* that is a persisted revision of the same article.
C8_PreviousInSameDocument ==
    \A r \in revisions :
        r.previous_revision # None =>
            \E q \in revisions :
                q.id = r.previous_revision /\ q.article = r.article

\* C8 witness: two documents have revisions and a revision of the second
\* document has a predecessor.
C8_Witness ==
    \E r, q \in revisions :
        /\ r.article # q.article
        /\ r.article > q.article
        /\ r.previous_revision # None

\* C5 (as claimed): no two revisions of a document share their
\* previous_revision (one chain, ending at the single revision without
\* predecessor), and every revision being persisted gets as
\* previous_revision the revision that is current in the store at the call.
C5_PreviousIsStoreCurrent ==
    /\ [](\A r, q \in revisions :
             (r.id # q.id /\ r.article = q.article) =>
                 r.previous_revision # q.previous_revision)
    /\ [][\A r \in revisions' \ revisions :
             r.previous_revision =
                 IF r.article \in DOMAIN articles
                 THEN articles[r.article].current_revision
                 ELSE None]_vars

\* C3 (as claimed): while an add_revision call is under way, the store never
\* holds the call's new revision together with a current_revision of the
\* document that still is an older revision (one persisted before it).
C3_NoIntermediateState ==
    \A w \in Writers :
        (pc[w] # "idle" /\ inflight[w].id # None) =>
            ~(/\ articles[inflight[w].article].current_revision # None
              /\ articles[inflight[w].article].current_revision < inflight[w].id)

\* C4 (as claimed): two add_revision calls under way on one document never
\* hold the same computed revision_number, and no add_revision call ends in
\* the IntegrityError of the (article, revision_number) constraint.
C4_NoNumberCollision ==
    /\ \A v, w \in Writers :
          (/\ v # w
           /\ pc[v] \in {"insert", "promote", "current"}
           /\ pc[w] \in {"insert", "promote", "current"}
           /\ inflight[v].article = inflight[w].article) =>
              inflight[v].revision_number # inflight[w].revision_number
    /\ ~(outcome.op = "add_revision" /\ outcome.status = "IntegrityError")

\* C9: a delete_subtree in which a deletion failed (caught and logged,
\* l.113-114) leaves every node, document, revision and binding as before
\* the call.
C9_FailedDeleteChangesNothing ==
    [][(outcome'.op = "delete_subtree" /\ outcome'.status = "logged") =>
          /\ nodes' = nodes
          /\ articles' = articles
          /\ revisions' = revisions
          /\ bindings' = bindings]_vars

\* C9 witness: delete_subtree on a node with two descendants has logged a
\* failure, and the three nodes with their documents and revisions exist.
C9_Witness ==
    /\ outcome.op = "delete_subtree"
    /\ outcome.status = "logged"
    /\ outcome.rows = 3
    /\ outcome.node \in DOMAIN nodes
    /\ Cardinality(Below(nodes, {outcome.node})) = 3
    /\ \A n \in Below(nodes, {outcome.node}) :
          /\ nodes[n].article \in DOMAIN articles
          /\ RevisionsOf(revisions, nodes[n].article) # {}

\* C10: after a successful delete_subtree(node) neither the node nor any of
\* its descendants exists, nor the document any of them pointed at, nor a
\* revision of those documents, nor a binding of those nodes or documents.
C10_SubtreeGone ==
    [][(/\ outcome'.op = "delete_subtree"
        /\ outcome'.status = "ok"
        /\ outcome'.node \in DOMAIN nodes) =>
          \A n \in Below(nodes, {outcome'.node}) :
              /\ n \notin DOMAIN nodes'
              /\ nodes[n].article \notin DOMAIN articles'
              /\ RevisionsOf(revisions', nodes[n].article) = {}
              /\ \A b \in bindings : b.object_id = n => b.article \notin DOMAIN articles'
              /\ \A b \in bindings' :
                    b.object_id # n /\ b.article # nodes[n].article]_vars

\* C10 witness: a delete_subtree over two or more rows succeeded, a node outside
\* the subtree remains, and more revisions than documents had been created.
C10_Witness ==
    /\ outcome.op = "delete_subtree"
    /\ outcome.status = "ok"
    /\ outcome.rows >= 2
    /\ outcome.node \notin DOMAIN nodes
    /\ DOMAIN nodes # {}
    /\ nextRevisionId > nextArticleId

\* C11: a delete() of a node that has children, root or not, fails and
\* changes no node and no binding.
C11_ParentNeverDeleted ==
    [][(/\ outcome'.op = "delete"
        /\ outcome'.node \in DOMAIN nodes
        /\ Children(nodes, outcome'.node) # {}) =>
          /\ outcome'.status = "AssertionError"
          /\ nodes' = nodes
          /\ bindings' = bindings]_vars

\* C12: every site that has a node has exactly one node without parent.
C12_OneRootPerSite ==
    \A s \in Sites :
        (\E n \in DOMAIN nodes : nodes[n].site = s) =>
            Cardinality(RootNodes(nodes, s)) = 1

\* C13: no call adds a parentless node to a site that has one, and a
\* create_root on a site that has a root ends in ValidationError.
C13_SecondRootRejected ==
    [][/\ \A s \in Sites :
             RootNodes(nodes, s) # {} => RootNodes(nodes', s) \subseteq RootNodes(nodes, s)
       /\ (outcome'.op = "create_root" /\ outcome'.node \in DOMAIN nodes) =>
             outcome'.status = "ValidationError"]_vars

\* C14: in every state a node without parent has no slug and a node with a
\* parent has a slug.
C14_SlugIffParent ==
    \A n \in DOMAIN nodes : (nodes[n].parent = None) <=> (nodes[n].slug = NoSlug)

\* ------------------------------------------------ resolution, as specified
Resolved == outcome.op = "get_by_path"

\* The path asked for, without the separators around it.
Asked == RStrip(LStrip(outcome.call.path))

\* The site asked for has one root.
OneRoot == Cardinality(RootNodes(nodes, outcome.call.site)) = 1

TheRoot == CHOOSE r \in RootNodes(nodes, outcome.call.site) : TRUE

\* The slugs from below the root down to n, joined, with a trailing
\* separator; the empty string for a root.
Joined(n) ==
    IF nodes[n].parent = None THEN <<>>
    ELSE LET up == GetAncestors(nodes, n) \o <<n>>
         IN Join([i \in 1..(Len(up) - 1) |-> Chars(nodes[up[i + 1]].slug)]) \o <<Sep>>

\* Node n carries a slug that segment seg spells, under the comparison asked for.
Spelled(n, seg) ==
    /\ nodes[n].slug # NoSlug
    /\ \/ Chars(nodes[n].slug) = seg
       \/ ~outcome.call.sensitive /\ Lower(Chars(nodes[n].slug)) = Lower(seg)

\* C15: on a site with one root, under which every node has a slug, asking
\* for the path of a node n, with or without separators around it, returns
\* n, and the path of the returned node is the joined slugs below the root
\* with a trailing separator (the empty string for the root).
C15_RoundTrip ==
    (/\ Resolved
     /\ OneRoot
     /\ \A m \in Below(nodes, {TheRoot}) \ {TheRoot} : nodes[m].slug # NoSlug) =>
        \A n \in Below(nodes, {TheRoot}) :
            Asked = RStrip(Joined(n)) =>
                /\ outcome.status = "ok"
                /\ outcome.node = n
                /\ URLPathPath(nodes, outcome.node, outcome.call.ancestors) = Joined(n)

\* C16: asking for a path of separators only returns the one root of the
\* site; it raises NoRootURL when the site has no root and MultipleRootURLs
\* when it has several, returning none of them.
C16_EmptyPathIsRoot ==
    (Resolved /\ \A i \in DOMAIN outcome.call.path : outcome.call.path[i] = Sep) =>
        LET roots == {n \in DOMAIN nodes :
                         nodes[n].parent = None /\ nodes[n].site = outcome.call.site}
        IN /\ roots = {} => outcome.status = "NoRootURL" /\ outcome.node = None
           /\ Cardinality(roots) = 1 => outcome.status = "ok" /\ outcome.node \in roots
           /\ Cardinality(roots) > 1 =>
                 outcome.status = "MultipleRootURLs" /\ outcome.node = None

\* C16 witness: "/" was asked for on a site with two parentless nodes and
\* MultipleRootURLs was raised.
C16_Witness ==
    /\ Resolved
    /\ outcome.call.path = <<Sep>>
    /\ Cardinality(RootNodes(nodes, outcome.call.site)) = 2
    /\ outcome.status = "MultipleRootURLs"

\* C17: with URL_CASE_SENSITIVE false, on a site with one root, asking for
\* the path of a node p followed by the segment "foo" returns the child of
\* p whose slug is "Foo".
C17_FoldedSegmentResolves ==
    (Resolved /\ ~outcome.call.sensitive /\ OneRoot) =>
        \A n \in Below(nodes, {TheRoot}) \ {TheRoot} :
            (/\ nodes[n].slug = "Foo"
             /\ Asked = Joined(nodes[n].parent) \o Chars("foo")) =>
                outcome.status = "ok" /\ outcome.node = n

\* The chains of nodes, one per segment asked for, each a child of the one
\* before (the first of the root) and spelled by its segment.
Chains ==
    LET segs == Split(Asked)
    IN {c \in [1..Len(segs) -> DOMAIN nodes] :
           \A i \in 1..Len(segs) :
               /\ Spelled(c[i], segs[i])
               /\ nodes[c[i]].parent = IF i = 1 THEN TheRoot ELSE c[i - 1]}

\* No node has two children spelled by one segment asked for.
Unambiguous ==
    \A p \in DOMAIN nodes : \A i \in DOMAIN Split(Asked) :
        Cardinality({c \in Children(nodes, p) : Spelled(c, Split(Asked)[i])}) <= 1

\* C18: on a site with one root, a resolution returns a node only when
\* every segment was matched, in order, by a child of the node reached
\* before it, under the configured comparison; when some segment has no
\* such child it raises DoesNotExist, and a resolution that raises returns
\* no node.
C18_UnmatchedSegmentNotFound ==
    (Resolved /\ OneRoot /\ Asked # <<>>) =>
        /\ outcome.status = "ok" =>
              \E c \in Chains :
                  /\ c[Len(Split(Asked))] = outcome.node
                  /\ outcome.call.ancestors =
                        <<TheRoot>> \o SubSeq(c, 1, Len(Split(Asked)) - 1)
        /\ outcome.status # "ok" => outcome.node = None
        /\ (Chains = {} /\ Unambiguous) => outcome.status = "DoesNotExist"

\* C18 witness: with URL_CASE_SENSITIVE true, "Foo/foo" was asked for where
\* the root has a child "Foo" whose only child is spelled "Foo";
\* DoesNotExist was raised.
C18_Witness ==
    /\ Resolved
    /\ OneRoot
    /\ outcome.call.sensitive
    /\ Asked = Chars("Foo") \o <<Sep>> \o Chars("foo")
    /\ \E n, m \in DOMAIN nodes :
          /\ nodes[n].parent = TheRoot /\ nodes[n].slug = "Foo"
          /\ nodes[m].parent = n /\ nodes[m].slug = "Foo"
    /\ outcome.status = "DoesNotExist"

\* C19: no resolution, exact or case-insensitive, finds two children of
\* one node matching a segment.
C19_NeverAmbiguous ==
    Resolved => outcome.status # "MultipleObjectsReturned"

\* ------------------------------------------------ permissions, as specified
ReadAsked == outcome.op = "can_read" /\ ~outcome.call.article.deleted

Anonymous == outcome.call.user.is_anonymous

OtherFlag == outcome.call.article.other_read

Owner == IsOwner(outcome.call.article, outcome.call.user)

GroupFlagAndMember ==
    /\ outcome.call.article.group_read
    /\ outcome.call.article.group # None
    /\ outcome.call.article.group \in outcome.call.user.groups

Moderator == outcome.call.user.moderator

\* C20, as claimed: on a document that is not deleted can_read denies an
\* anonymous user when settings.ANONYMOUS is off, and otherwise allows
\* exactly when other_read is set, or the user is the owner, or group_read
\* is set and the user is in the document's group, or the user may moderate.
C20_SpecOrder ==
    ReadAsked =>
        (outcome.call.result <=>
            /\ ~(Anonymous /\ ~outcome.call.anonymous)
            /\ (OtherFlag \/ Owner \/ GroupFlagAndMember \/ Moderator))

\* C20, amended: on a document that is not deleted can_read allows an
\* anonymous user exactly when settings.ANONYMOUS and other_read are both
\* set, and a user who is logged in exactly when other_read is set, or the
\* user is the owner, or group_read is set and the user is in the document's
\* group, or the user may moderate.
C20_ReadDecision ==
    ReadAsked =>
        (outcome.call.result <=>
            IF Anonymous THEN outcome.call.anonymous /\ OtherFlag
            ELSE OtherFlag \/ Owner \/ GroupFlagAndMember \/ Moderator)

\* C20 witness: with settings.ANONYMOUS on, an anonymous user whom the
\* policy lets moderate was denied a document without other_read.
C20_Witness ==
    /\ ReadAsked
    /\ Anonymous
    /\ outcome.call.anonymous
    /\ ~OtherFlag
    /\ Moderator
    /\ ~outcome.call.result

WriteAsked == outcome.op = "can_write"

\* C22: can_write decides as can_read does on a document that is not
\* deleted, with other_write, group_write and settings.ANONYMOUS_WRITE in
\* the place of other_read, group_read and settings.ANONYMOUS; the deleted
\* flag of the current revision does not enter the decision.
C22_WriteShape ==
    WriteAsked =>
        LET a == outcome.call.article
            user == outcome.call.user
            asRead == [a EXCEPT !.other_read = a.other_write,
                                !.group_read = a.group_write,
                                !.deleted = FALSE]
        IN /\ outcome.call.result = ArticleCanRead(asRead, user, outcome.call.anonymous)
           /\ outcome.call.result <=>
                 IF user.is_anonymous THEN outcome.call.anonymous /\ a.other_write
                 ELSE \/ a.other_write
                      \/ Owner
                      \/ a.group_write /\ a.group # None /\ a.group \in user.groups
                      \/ Moderator

\* C22 witness: a user without delete rights was allowed to write, through
\* group_write alone, a document whose current revision is deleted.
C22_Witness ==
    /\ WriteAsked
    /\ outcome.call.article.deleted
    /\ ~outcome.call.user.deleter
    /\ ~outcome.call.article.other_write
    /\ ~Owner /\ ~Moderator
    /\ outcome.call.result

\* C23: can_read and can_write allow the owner of the document, whatever
\* the flags, the group, the settings and the deleted flag.
C23_OwnerAlwaysAllowed ==
    (outcome.op \in {"can_read", "can_write"} /\ Owner) => outcome.call.result

\* C28: one call of create_notifications creates at most one notification
\* per user, in whatever order the store returns the subscriptions.
C28_OncePerUser ==
    outcome.op = "create_notifications" =>
        LET made == outcome.call.objects_created
        IN \A i, j \in DOMAIN made :
               made[i].subscription.user = made[j].subscription.user => i = j

\* C30: a revision saved directly with ArticleRevision.save leaves the
\* current revision of a document that has one unchanged, and becomes the
\* current revision of a document that has none.
C30_DirectSaveKeepsCurrent ==
    [][(outcome'.op = "revision_save" /\ outcome'.status = "ok") =>
         LET a == outcome'.article
         IN IF articles[a].current_revision # None
            THEN articles'[a].current_revision = articles[a].current_revision
            ELSE articles'[a].current_revision = nextRevisionId]_vars

\* The documents of the nodes below the nodes document a is bound to.
DocumentsBelow(a) ==
    {nodes[m].article :
        m \in UNION {Below(nodes, {b.object_id}) \ {b.object_id} :
                        b \in {x \in bindings : x.article = a}}}

\* C24: when set_permissions_recursive (set_group_recursive,
\* set_owner_recursive) on document D has completed, every document bound
\* to a node below D's node has the stored group_read, group_write,
\* other_read and other_write (group, owner) of D.
C24_DescendantsInherit ==
    LET D == outcome.article
    IN /\ outcome.op = "set_permissions_recursive" =>
             \A x \in DocumentsBelow(D) :
                 /\ articles[x].access.group_read = articles[D].access.group_read
                 /\ articles[x].access.group_write = articles[D].access.group_write
                 /\ articles[x].access.other_read = articles[D].access.other_read
                 /\ articles[x].access.other_write = articles[D].access.other_write
       /\ outcome.op = "set_group_recursive" =>
             \A x \in DocumentsBelow(D) :
                 articles[x].access.group = articles[D].access.group
       /\ outcome.op = "set_owner_recursive" =>
             \A x \in DocumentsBelow(D) :
                 articles[x].access.owner = articles[D].access.owner

\* The binding of target n to a document other than a.
BoundElsewhere(bs, n, a) == \E b \in bs : b.object_id = n /\ b.article # a

\* C25: no target ever has two bindings, and add_object_relation for a
\* target that is bound to a different document creates no binding.
C25_OneBindingPerTarget ==
    [][/\ \A b1, b2 \in bindings' : b1.object_id = b2.object_id => b1 = b2
       /\ (/\ outcome'.op = "add_object_relation"
           /\ BoundElsewhere(bindings, outcome'.node, outcome'.article))
              => bindings' = bindings]_vars

\* C25 witness: add_object_relation was refused for a target bound to a
\* different document.
C25_Witness ==
    /\ outcome.op = "add_object_relation"
    /\ outcome.status = "IntegrityError"
    /\ BoundElsewhere(bindings, outcome.node, outcome.article)

\* C26: in every state, the article pointer of a URLPath that is the
\* target of a binding is the article of that binding.
C26_PointerFollowsBinding ==
    \A b \in bindings :
        b.object_id \in DOMAIN nodes => nodes[b.object_id].article = b.article

\* C26 witness: the URLPath that caller 1 inserted for its own article was
\* bound by caller 2 to a different document, and points at that document.
C26_Witness ==
    /\ outcome.op = "add_object_relation"
    /\ outcome.status = "ok"
    /\ pc[1] = "relate"
    /\ outcome.node = NewPath
    /\ local[1].id # outcome.article
    /\ [article |-> outcome.article, object_id |-> outcome.node] \in bindings
    /\ nodes[outcome.node].article = outcome.article

\* C27: create_article is one transaction: a call that fails leaves no
\* new document, revision, node or binding, and no state shows a node
\* without its binding.
C27_CreateArticleAtomic ==
    [][/\ (outcome'.op = "create_article" /\ outcome'.status = "IntegrityError")
             => /\ articles' = articles
                /\ revisions' = revisions
                /\ nodes' = nodes
                /\ bindings' = bindings
       /\ \A n \in DOMAIN nodes' : \E b \in bindings' : b.object_id = n]_vars

\* The nodes from n up to its root, n included.
RECURSIVE UpTo(_)
UpTo(n) == IF nodes[n].parent = None THEN {n} ELSE {n} \cup UpTo(nodes[n].parent)

\* The document of node m has a current revision flagged deleted.
FlaggedDeleted(m) ==
    \E r \in revisions :
        r.id = articles[nodes[m].article].current_revision /\ r.deleted

\* C29: is_deleted is True exactly when the document of the node or of one
\* of its ancestors, the root included, has a current revision flagged
\* deleted, and first_deleted_ancestor is the such node with no such node
\* above it.
C29_DeletedThroughAncestors ==
    (outcome.op = "is_deleted" /\ outcome.status = "ok") =>
        LET flagged == {m \in UpTo(outcome.node) : FlaggedDeleted(m)}
        IN /\ outcome.call.result <=> flagged # {}
           /\ flagged = {} => outcome.call.first = None
           /\ flagged # {} =>
                 /\ outcome.call.first \in flagged
                 /\ \A m \in flagged :
                        Level(nodes, outcome.call.first) <= Level(nodes, m)

\* C29 witness: asked of a node whose own document and whose parent's
\* document are both flagged deleted, the answer names the parent.
C29_Witness ==
    /\ outcome.op = "is_deleted"
    /\ outcome.call.result
    /\ FlaggedDeleted(outcome.node)
    /\ nodes[outcome.node].parent # None
    /\ outcome.call.first = nodes[outcome.node].parent

\* C32: can_read (can_write) allows an anonymous user only when
\* settings.ANONYMOUS (settings.ANONYMOUS_WRITE) is on and other_read
\* (other_write) is set, never through the owner, the group or the
\* moderation answer, whether the document has an owner or not.
C32_AnonymousOnlyThroughOther ==
    (outcome.op \in {"can_read", "can_write"} /\ outcome.call.user.is_anonymous
        /\ outcome.call.result) =>
        /\ outcome.call.anonymous
        /\ outcome.op = "can_read" => outcome.call.article.other_read
        /\ outcome.op = "can_write" => outcome.call.article.other_write

\* C32 witness: with settings.ANONYMOUS_WRITE on, an anonymous user the
\* policy would let moderate was refused a live document without owner
\* whose other_write is off.
C32_Witness ==
    /\ outcome.op = "can_write"
    /\ outcome.call.user.is_anonymous
    /\ outcome.call.anonymous
    /\ outcome.call.user.moderator
    /\ outcome.call.article.owner = None
    /\ ~outcome.call.article.deleted
    /\ ~outcome.call.article.other_write
    /\ ~outcome.call.result

\* The documents that no node of the set S points at or is bound to.
DocumentsOutside(S) ==
    {a \in DOMAIN articles :
        /\ \A m \in S : nodes[m].article # a
        /\ \A b \in bindings : b.article = a => b.object_id \notin S}

\* C31: delete_subtree(node) leaves every node that is neither the node
\* nor one of its descendants, and every document and revision of such
\* nodes only, as they were, also when a document of the subtree is the
\* document of a node outside it.
C31_NothingOutsideSubtree ==
    [][(outcome'.op = "delete_subtree" /\ outcome'.node \in DOMAIN nodes) =>
         LET S == Below(nodes, {outcome'.node})
         IN /\ \A m \in DOMAIN nodes \ S :
                   m \in DOMAIN nodes' /\ nodes'[m] = nodes[m]
            /\ \A a \in DocumentsOutside(S) :
                   /\ a \in DOMAIN articles' /\ articles'[a] = articles[a]
                   /\ RevisionsOf(revisions', a) = RevisionsOf(revisions, a)]_vars

====
